---- MODULE Spec2Model ----
(***************************************************************************)
(* Order creation with inventory control and rate limiting (ClickEats /    *)
(* Petshop).  The model covers the menu_items table with its availability  *)
(* trigger, the stock decrement procedure, and the createOrder sequence of *)
(* useOrders.ts with the rate-limit triggers on the orders table.          *)
(***************************************************************************)
EXTENDS Integers, Sequences, FiniteSets, TLC

VARIABLES
    menu_items,   \* table menu_items: item id -> row with the stock columns
    orders,       \* table orders: the committed order headers
    order_items,  \* table order_items: the committed line items
    now,          \* the database clock now(), in seconds
    sub,          \* per customer session: the createOrder call in progress
    tracking,     \* the Track Order page: the last search and the order shown
    card,         \* MenuItemCard: its item, the modal and the selections in it
    cart          \* useCart: the cartItems state

vars == <<menu_items, orders, order_items, now, sub, tracking, card, cart>>

(***************************************************************************)
(* Bounds of the model.                                                    *)
(***************************************************************************)
MaxStock == 2        \* largest stock_quantity an administrator writes
MaxThreshold == 1    \* largest low_stock_threshold an administrator writes
MaxQty == 1          \* largest quantity of one cart line / decrement entry
MaxLines == 2        \* longest cart
MaxTicks == 3        \* number of clock steps
MaxOrders == 2       \* number of order headers kept in the orders table
MaxPartySize == 1    \* largest party size entered at checkout
MaxTermLen == 2      \* longest search term typed on the Track Order page
InitialStock == 3    \* stock of the tracked item when the order flow starts

(***************************************************************************)
(* SQL NULL for integer and text columns, and SQL three-valued booleans.   *)
(***************************************************************************)
NULL == -1000

TriBool == {"true", "false", "null"}

COALESCE(x, d) == IF x = NULL THEN d ELSE x

COALESCE_bool(b, d) == IF b = "null" THEN d ELSE (b = "true")

GREATEST(a, b) == IF a >= b THEN a ELSE b

\* a IS DISTINCT FROM b: NULL-safe inequality; the sentinel makes it plain /=
IS_DISTINCT_FROM(a, b) == a /= b

(***************************************************************************)
(* menu_items: the catalog with its stock columns.                         *)
(***************************************************************************)
Items == {"A1", "B2"}

Names == {"Dog Food 1kg", "Dog Food 1 kg"}   \* a cosmetic column

StockValues == {NULL} \cup (-1 .. MaxStock)

ThresholdValues == {NULL} \cup (-1 .. MaxThreshold)

MenuRow == [name : Names, track_inventory : TriBool,
            stock_quantity : StockValues,
            low_stock_threshold : ThresholdValues,
            available : BOOLEAN]

\* OLD of a BEFORE INSERT trigger: every column reads as NULL
OldOfInsert == [name |-> "", track_inventory |-> "null",
                stock_quantity |-> NULL, low_stock_threshold |-> NULL,
                available |-> FALSE]

\* the assignments without GREATEST: NULL becomes 0, a negative value stays
ClampedRowNoGreatest(new) ==
    [new EXCEPT !.stock_quantity = COALESCE(new.stock_quantity, 0),
                !.low_stock_threshold = COALESCE(new.low_stock_threshold, 0)]

\* the stock columns after the two GREATEST(COALESCE(..)) assignments
ClampedRow(new) ==
    [new EXCEPT !.stock_quantity = GREATEST(COALESCE(new.stock_quantity, 0), 0),
                !.low_stock_threshold = GREATEST(COALESCE(new.low_stock_threshold, 0), 0)]

\* the whole row compared: a change of any other column counts as well
StockFieldsChangedOrOther(old, new) ==
    \/ IS_DISTINCT_FROM(old.stock_quantity, new.stock_quantity)
    \/ IS_DISTINCT_FROM(old.low_stock_threshold, new.low_stock_threshold)
    \/ IS_DISTINCT_FROM(old.track_inventory, new.track_inventory)
    \/ IS_DISTINCT_FROM(old.name, new.name)

\* the third comparison left out: a change of the tracking flag alone is not seen
StockFieldsChangedNoToggle(old, new) ==
    \/ IS_DISTINCT_FROM(old.stock_quantity, new.stock_quantity)
    \/ IS_DISTINCT_FROM(old.low_stock_threshold, new.low_stock_threshold)

\* the condition of the inner IF, on the clamped NEW
StockFieldsChanged(old, new) ==
    \/ IS_DISTINCT_FROM(old.stock_quantity, new.stock_quantity)
    \/ IS_DISTINCT_FROM(old.low_stock_threshold, new.low_stock_threshold)
    \/ IS_DISTINCT_FROM(old.track_inventory, new.track_inventory)

\* the comparison with < for <=
AutoAvailableStrict(new) == ~(new.stock_quantity < new.low_stock_threshold)

\* IF new.stock_quantity <= new.low_stock_threshold THEN false ELSE true
AutoAvailable(new) == ~(new.stock_quantity <= new.low_stock_threshold)

\* the two clamping assignments placed before the IF: every row is clamped
sync_clamps_every_row(old, new) ==
    LET N == ClampedRow(new)
    IN  IF COALESCE_bool(new.track_inventory, FALSE) /\ StockFieldsChanged(old, N)
        THEN [N EXCEPT !.available = AutoAvailable(N)]
        ELSE N

\* the trigger before the fix: a tracked row is recomputed on every write
sync_always_recomputes(old, new) ==
    IF COALESCE_bool(new.track_inventory, FALSE)
    THEN LET N == ClampedRow(new)
         IN  [N EXCEPT !.available = AutoAvailable(N)]
    ELSE new

\* the row the BEFORE INSERT OR UPDATE trigger returns
sync_menu_item_availability(old, new) ==
    IF COALESCE_bool(new.track_inventory, FALSE)
    THEN LET N == ClampedRow(new)
         IN  IF StockFieldsChanged(old, N)
             THEN [N EXCEPT !.available = AutoAvailable(N)]
             ELSE N
    ELSE new

\* the trigger created BEFORE INSERT only: an UPDATE stores the row as written
UpdateRowNoTrigger(table, i, new) == [table EXCEPT ![i] = new]

\* UPDATE menu_items SET <columns> WHERE id = i, as the table stores it
UpdateRow(table, i, new) ==
    [table EXCEPT ![i] = sync_menu_item_availability(table[i], new)]

(***************************************************************************)
(* decrement_menu_item_stock(items jsonb): one UPDATE per entry, all in    *)
(* the one transaction of the function call.                               *)
(***************************************************************************)
\* the quantity of the entry ignored: one unit per entry
DecrementedQuantityByOne(stock_quantity, qty) ==
    GREATEST(COALESCE(stock_quantity, 0) - 1, 0)

DecrementedQuantity(stock_quantity, qty) ==
    GREATEST(COALESCE(stock_quantity, 0) - qty, 0)

\* the UPDATE with a further condition stock_quantity >= quantity: a decrement
\* the stock does not cover is skipped
DecrementEntryConditional(table, entry) ==
    IF /\ entry.id \in DOMAIN table
       /\ table[entry.id].track_inventory = "true"
       /\ COALESCE(table[entry.id].stock_quantity, 0) >= entry.quantity
    THEN UpdateRow(table, entry.id,
                   [table[entry.id] EXCEPT !.stock_quantity =
                        DecrementedQuantity(@, entry.quantity)])
    ELSE table

\* UPDATE .. SET stock_quantity = .. WHERE track_inventory = true AND id = ..
DecrementEntry(table, entry) ==
    IF entry.id \in DOMAIN table /\ table[entry.id].track_inventory = "true"
    THEN UpdateRow(table, entry.id,
                   [table[entry.id] EXCEPT !.stock_quantity =
                        DecrementedQuantity(@, entry.quantity)])
    ELSE table

RECURSIVE decrement_menu_item_stock(_, _)
decrement_menu_item_stock(table, items) ==
    IF items = <<>> THEN table
    ELSE decrement_menu_item_stock(DecrementEntry(table, Head(items)), Tail(items))

(***************************************************************************)
(* Text values.  A contact number is a sequence of characters so that      *)
(* trim() is computed; an IP address is an opaque string or NULL.          *)
(***************************************************************************)
NULLTEXT == "NULL"

ContactNumbers == {<<"1">>, <<"2">>, <<" ">>}

IpAddresses == {"203.0.113.7", "198.51.100.9", NULLTEXT}

RECURSIVE ltrim(_)
ltrim(t) == IF t /= <<>> /\ Head(t) = " " THEN ltrim(Tail(t)) ELSE t

RECURSIVE rtrim(_)
rtrim(t) == IF t /= <<>> /\ t[Len(t)] = " " THEN rtrim(SubSeq(t, 1, Len(t) - 1)) ELSE t

\* the contact number taken as typed, blanks and all
trim_none(t) == t

trim(t) == rtrim(ltrim(t))

(***************************************************************************)
(* The clock: now() advances in steps of TickSeconds.                      *)
(***************************************************************************)
Cooldown == 60

TickSeconds == 30

(***************************************************************************)
(* BEFORE INSERT triggers on orders: prevent_spam_orders_per_ip and its    *)
(* hardened version with the contact number check.                         *)
(***************************************************************************)
InWindow(created_at, t) == created_at >= t - Cooldown

\* the check by address left out
recent_count_none(table, ip_address, t) == 0

\* SELECT COUNT(*) FROM orders WHERE ip_address = NEW.ip_address AND ..
recent_count(table, ip_address, t) ==
    Cardinality({o \in table : /\ ip_address /= NULLTEXT
                               /\ o.ip_address /= NULLTEXT
                               /\ o.ip_address = ip_address
                               /\ InWindow(o.created_at, t)})

\* the hardening left out: no check by contact number
recent_phone_count_unchecked(table, contact_number, t) == 0

\* IF NEW.contact_number IS NOT NULL AND length(trim(..)) > 0 THEN SELECT ..
recent_phone_count(table, contact_number, t) ==
    IF Len(trim(contact_number)) > 0
    THEN Cardinality({o \in table : /\ o.contact_number = contact_number
                                    /\ InWindow(o.created_at, t)})
    ELSE 0

\* "Requires at least one identifier (IP or phone)"
MissingIdentifiers(ip_address, contact_number) ==
    ip_address = NULLTEXT /\ Len(trim(contact_number)) = 0

\* TRUE when the triggers RAISE EXCEPTION for the row being inserted
prevent_spam_orders(table, ip_address, contact_number, t) ==
    \/ MissingIdentifiers(ip_address, contact_number)
    \/ recent_count(table, ip_address, t) > 0
    \/ recent_phone_count(table, contact_number, t) > 0

(***************************************************************************)
(* createOrder (useOrders.ts): the cart and what is derived from it.       *)
(***************************************************************************)
Subs == {"s1", "s2"}

\* CartItem.totalPrice: the price of one unit of the configuration chosen
UnitPrice(menuItemId) == IF menuItemId = "A1" THEN 250 ELSE 120

CartLines == {[menuItemId |-> i, quantity |-> q, totalPrice |-> UnitPrice(i)] :
                 i \in Items, q \in 1 .. MaxQty}

RECURSIVE SeqsUpTo(_, _)
SeqsUpTo(S, n) ==
    IF n = 0 THEN {<<>>}
    ELSE LET shorter == SeqsUpTo(S, n - 1)
         IN  shorter \cup {Append(q, x) : q \in {r \in shorter : Len(r) = n - 1}, x \in S}

Carts == SeqsUpTo(CartLines, MaxLines) \ {<<>>}

\* getTotalPrice(): sums totalPrice * quantity for all items of the cart
RECURSIVE getTotalPrice(_)
getTotalPrice(cartItems) ==
    IF cartItems = <<>> THEN 0
    ELSE Head(cartItems).totalPrice * Head(cartItems).quantity
         + getTotalPrice(Tail(cartItems))

\* what Checkout hands to createOrder: the cart with its total, the contact
\* number typed, and the address the request comes from
Payloads(carts) ==
    {[items |-> c, contactNumber |-> n, clientIp |-> ip, total |-> getTotalPrice(c)] :
        c \in carts, n \in ContactNumbers, ip \in IpAddresses}

\* quantities of the lines of one catalog item, summed
RECURSIVE QuantityOf(_, _)
QuantityOf(items, id) ==
    IF items = <<>> THEN 0
    ELSE (IF Head(items).menuItemId = id THEN Head(items).quantity ELSE 0)
         + QuantityOf(Tail(items), id)

\* stockAdjustments: item id -> aggregated quantity, for the items in the cart
StockAdjustments(items) ==
    [id \in {items[k].menuItemId : k \in 1 .. Len(items)} |-> QuantityOf(items, id)]

RECURSIVE EntriesOf(_, _)
EntriesOf(adjustments, ids) ==
    IF ids = {} THEN <<>>
    ELSE LET id == CHOOSE x \in ids : TRUE
         IN  <<[id |-> id, quantity |-> adjustments[id]]>>
             \o EntriesOf(adjustments, ids \ {id})

\* inventoryPayload: the entries of stockAdjustments as [{id, quantity}]
InventoryPayload(adjustments) == EntriesOf(adjustments, DOMAIN adjustments)

\* the comparison off by one
IsInsufficientOffByOne(row, requested) ==
    COALESCE_bool(row.track_inventory, FALSE) /\ COALESCE(row.stock_quantity, 0) + 1 < requested

\* the tracking flag not consulted: every row is compared
IsInsufficientAnyRow(row, requested) == COALESCE(row.stock_quantity, 0) < requested

\* row.track_inventory && (row.stock_quantity ?? 0) < stockAdjustments[row.id]
IsInsufficient(row, requested) ==
    COALESCE_bool(row.track_inventory, FALSE) /\ COALESCE(row.stock_quantity, 0) < requested

\* select('id, track_inventory, stock_quantity').in('id', stockedItemIds)
InventorySnapshot(table, stockedItemIds) ==
    [id \in stockedItemIds \cap DOMAIN table |->
        [track_inventory |-> table[id].track_inventory,
         stock_quantity |-> table[id].stock_quantity]]

\* a find() that never matches
InsufficientItemsNone(inventorySnapshot, adjustments) == {}

\* the rows of inventorySnapshot that the find() predicate accepts
InsufficientItems(inventorySnapshot, adjustments) ==
    {id \in DOMAIN inventorySnapshot : IsInsufficient(inventorySnapshot[id], adjustments[id])}

(***************************************************************************)
(* Checkout (Checkout.tsx): the customer details and their validation.     *)
(***************************************************************************)
ServiceTypes == {"dine-in", "pickup", "delivery"}

CheckoutDetails ==
    [customerName : {"", "Jane Doe"},
     contactNumber : {<<>>, <<"1">>, <<" ">>},
     serviceType : ServiceTypes,
     address : {"", "12 Elm St"},
     pickupTime : {"15-20 min", "custom"},
     customTime : {"", "45 min"},
     partySize : 0 .. MaxPartySize,
     dineInTime : {"", "2025-01-20T18:00"}]

NoDetails == [customerName |-> "", contactNumber |-> <<>>, serviceType |-> "pickup",
              address |-> "", pickupTime |-> "15-20 min", customTime |-> "",
              partySize |-> 0, dineInTime |-> ""]

\* a string in a boolean position: the empty string is false
Truthy(str) == str /= ""

\* the same for a contact number, held as a sequence of characters
TruthyText(t) == Len(t) > 0

\* the pickup clause without the custom time
isDetailsValidAnyPickup(d) ==
    /\ Truthy(d.customerName)
    /\ TruthyText(d.contactNumber)
    /\ (d.serviceType /= "delivery" \/ Truthy(d.address))
    /\ (d.serviceType /= "dine-in" \/ (d.partySize > 0 /\ Truthy(d.dineInTime)))

isDetailsValid(d) ==
    /\ Truthy(d.customerName)
    /\ TruthyText(d.contactNumber)
    /\ (d.serviceType /= "delivery" \/ Truthy(d.address))
    /\ (d.serviceType /= "pickup" \/ (d.pickupTime /= "custom" \/ Truthy(d.customTime)))
    /\ (d.serviceType /= "dine-in" \/ (d.partySize > 0 /\ Truthy(d.dineInTime)))

(***************************************************************************)
(* State of one createOrder call.                                          *)
(***************************************************************************)
IdleSub == [pc |-> "idle", details |-> NoDetails,
            payload |-> [items |-> <<>>, contactNumber |-> <<>>, clientIp |-> NULLTEXT,
                         total |-> 0],
            stockAdjustments |-> <<>>, inventorySnapshot |-> <<>>,
            order_id |-> NULL, created_at |-> NULL,
            error |-> "", offending |-> "", warning |-> FALSE]

Terminal(s) == sub[s].pc \in {"completed", "rejected"}

Reject(s, error, offending) ==
    sub' = [sub EXCEPT ![s].pc = "rejected", ![s].error = error, ![s].offending = offending]

\* an INSERT INTO menu_items, as the BEFORE INSERT trigger stores the row
InsertRow(new) == sync_menu_item_availability(OldOfInsert, new)

TrackedRow == [name |-> "Dog Food 1kg", track_inventory |-> "true",
               stock_quantity |-> InitialStock, low_stock_threshold |-> 1,
               available |-> TRUE]

UntrackedRow == [name |-> "Dog Food 1kg", track_inventory |-> "false",
                 stock_quantity |-> NULL, low_stock_threshold |-> NULL,
                 available |-> TRUE]

(***************************************************************************)
(* MenuItemCard.tsx: the card of one menu item with its customization      *)
(* modal, and the cart of useCart that the modal hands the selection to.   *)
(***************************************************************************)
MaxAddOnQty == 2

MaxCartQty == 2

AddOnIds == {"x1", "x2"}

\* item.addOns: one add-on with a price, one free
AddOns == {[id |-> "x1", price |-> 15], [id |-> "x2", price |-> 0]}

\* selectedVariation undefined
NoVariation == [id |-> "", price |-> 0]

CardItemA1 ==
    [id |-> "A1", basePrice |-> UnitPrice("A1"), effectivePrice |-> NULL,
     variations |-> <<[id |-> "regular", price |-> 0], [id |-> "large", price |-> 20]>>]

\* an item on discount, without variations
CardItemB2 ==
    [id |-> "B2", basePrice |-> UnitPrice("B2"), effectivePrice |-> UnitPrice("B2") - 20,
     variations |-> <<>>]

CardItems == {CardItemA1, CardItemB2}

\* the component as mounted: useState(false), useState(item.variations?.[0]),
\* useState([])
InitialCard(item) ==
    [item |-> item,
     showCustomization |-> FALSE,
     selectedVariation |-> IF Len(item.variations) > 0 THEN item.variations[1]
                           ELSE NoVariation,
     selectedAddOns |-> <<>>]

\* item.effectivePrice ?? basePrice
effectivePriceOf(item) == COALESCE(item.effectivePrice, item.basePrice)

RECURSIVE SumAddOns(_)
SumAddOns(addOns) ==
    IF addOns = <<>> THEN 0
    ELSE Head(addOns).price * Head(addOns).quantity + SumAddOns(Tail(addOns))

\* the Total of the modal
calculatePrice(c) ==
    (IF c.selectedVariation /= NoVariation
     THEN effectivePriceOf(c.item) + c.selectedVariation.price
     ELSE effectivePriceOf(c.item))
    + SumAddOns(c.selectedAddOns)

\* prev.findIndex(a => a.id === id), counted from 1; 0 when there is none
findIndex(prev, id) ==
    IF \E k \in 1 .. Len(prev) : prev[k].id = id
    THEN CHOOSE k \in 1 .. Len(prev) :
            prev[k].id = id /\ \A j \in 1 .. k - 1 : prev[j].id /= id
    ELSE 0

RECURSIVE filterOut(_, _)
filterOut(prev, id) ==
    IF prev = <<>> THEN <<>>
    ELSE (IF Head(prev).id /= id THEN <<Head(prev)>> ELSE <<>>) \o filterOut(Tail(prev), id)

\* the add-on appended whether or not the list holds it already
updateAddOnQuantityAppends(prev, addOn, quantity) ==
    IF quantity = 0 THEN filterOut(prev, addOn.id)
    ELSE Append(prev, [id |-> addOn.id, price |-> addOn.price, quantity |-> quantity])

\* the updater passed to setSelectedAddOns
updateAddOnQuantity(prev, addOn, quantity) ==
    LET existingIndex == findIndex(prev, addOn.id)
    IN  IF quantity = 0 THEN filterOut(prev, addOn.id)
        ELSE IF existingIndex > 0
             THEN [prev EXCEPT ![existingIndex].quantity = quantity]
             ELSE Append(prev, [id |-> addOn.id, price |-> addOn.price,
                                quantity |-> quantity])

\* selectedAddOns.find(a => a.id === addOn.id)?.quantity, NULL for undefined
currentQuantity(selectedAddOns, id) ==
    IF findIndex(selectedAddOns, id) > 0
    THEN selectedAddOns[findIndex(selectedAddOns, id)].quantity
    ELSE NULL

\* x || d on a number: 0 and undefined are falsy
OrElse(x, d) == IF x = NULL \/ x = 0 THEN d ELSE x

RECURSIVE TotalQuantity(_)
TotalQuantity(rows) ==
    IF rows = <<>> THEN 0 ELSE Head(rows).quantity + TotalQuantity(Tail(rows))

\* Array(addOn.quantity).fill({ ...addOn, quantity: undefined })
copies(addOn) ==
    [k \in 1 .. addOn.quantity |-> [id |-> addOn.id, price |-> addOn.price,
                                    quantity |-> NULL]]

\* one copy per selected add-on, whatever its quantity
addOnsForCartOnce(selectedAddOns) ==
    [k \in 1 .. Len(selectedAddOns) |->
        [id |-> selectedAddOns[k].id, price |-> selectedAddOns[k].price,
         quantity |-> NULL]]

\* selectedAddOns.flatMap(..): the AddOn[] handed to onAddToCart
RECURSIVE addOnsForCart(_)
addOnsForCart(selectedAddOns) ==
    IF selectedAddOns = <<>> THEN <<>>
    ELSE copies(Head(selectedAddOns)) \o addOnsForCart(Tail(selectedAddOns))

RECURSIVE SumPrices(_)
SumPrices(addOns) ==
    IF addOns = <<>> THEN 0 ELSE Head(addOns).price + SumPrices(Tail(addOns))

\* useCart calculateItemPrice: effective price, variation, every add-on of
\* the array
calculateItemPrice(item, variation, addOns) ==
    effectivePriceOf(item)
    + (IF variation /= NoVariation THEN variation.price ELSE 0)
    + SumPrices(addOns)

\* useCart addToCart, the grouping: the add-ons of the array by id, a
\* quantity summed per id (an add-on without a quantity counts 1)
RECURSIVE groupAddOns(_, _)
groupAddOns(groups, addOns) ==
    IF addOns = <<>> THEN groups
    ELSE LET addOn == Head(addOns)
             k == findIndex(groups, addOn.id)
         IN  groupAddOns(
                 IF k > 0
                 THEN [groups EXCEPT ![k].quantity = @ + OrElse(addOn.quantity, 1)]
                 ELSE Append(groups, [id |-> addOn.id, price |-> addOn.price,
                                      quantity |-> OrElse(addOn.quantity, 1)]),
                 Tail(addOns))

\* the sorted `${a.id}-${a.quantity || 1}` lists of two selections are equal
sameAddOns(a1, a2) ==
    {<<a1[k].id, OrElse(a1[k].quantity, 1)>> : k \in 1 .. Len(a1)}
      = {<<a2[k].id, OrElse(a2[k].quantity, 1)>> : k \in 1 .. Len(a2)}

\* `${itemId}-${variationId}-${addOnIds}`
cartItemId(item, variation, groupedAddOns) ==
    <<item.id, variation.id, [k \in 1 .. Len(groupedAddOns) |-> groupedAddOns[k].id]>>

\* the index of the cart item of the same configuration, 0 when there is none
findExisting(cartItems, item, variation, groupedAddOns) ==
    LET matches == {k \in 1 .. Len(cartItems) :
                       /\ cartItems[k].menuItemId = item.id
                       /\ cartItems[k].selectedVariation.id = variation.id
                       /\ sameAddOns(cartItems[k].selectedAddOns, groupedAddOns)}
    IN  IF matches = {} THEN 0
        ELSE CHOOSE k \in matches : \A j \in matches : k <= j

\* useCart addToCart(item, quantity, variation, addOns)
addToCart(cartItems, item, quantity, variation, addOns) ==
    LET totalPrice == calculateItemPrice(item, variation, addOns)
        groupedAddOns == groupAddOns(<<>>, addOns)
        k == findExisting(cartItems, item, variation, groupedAddOns)
    IN  IF k > 0
        THEN [cartItems EXCEPT ![k].quantity = @ + quantity]
        ELSE Append(cartItems,
                    [id |-> cartItemId(item, variation, groupedAddOns),
                     menuItemId |-> item.id,
                     selectedVariation |-> variation,
                     selectedAddOns |-> groupedAddOns,
                     totalPrice |-> totalPrice,
                     quantity |-> quantity])

\* the Track Order page before a search
NoSearch == [searchType |-> "", searchValue |-> <<>>, rows |-> {}]

InitOrders ==
    /\ orders = {}
    /\ order_items = {}
    /\ now = 0
    /\ sub = [s \in Subs |-> IdleSub]
    /\ tracking = NoSearch
    /\ card = InitialCard(CardItemA1)
    /\ cart = <<>>

\* the catalog of the order flow: A1 tracked, B2 untracked
Init ==
    /\ menu_items = [i \in Items |->
          IF i = "A1" THEN InsertRow(TrackedRow) ELSE InsertRow(UntrackedRow)]
    /\ InitOrders

\* the trigger is FOR EACH ROW and rows do not interact: one row is administered
AdministeredItems == {"A1"}

\* the catalog as created: items without tracking, edited from there on
InitStock ==
    /\ menu_items = [i \in Items |-> InsertRow(UntrackedRow)]
    /\ InitOrders

(***************************************************************************)
(* Administration of menu_items (useMenu.ts updateMenuItem, Inventory      *)
(* Manager) and direct calls of the decrement procedure.                   *)
(***************************************************************************)
UpdateMenuItem(i, new) ==
    /\ menu_items' = UpdateRow(menu_items, i, new)
    /\ UNCHANGED <<orders, order_items, now, sub, tracking, card, cart>>

\* an update from the Inventory Manager: name, tracking flag, stock and
\* threshold are written, `available` is not among the columns set
EditStock(i, new) ==
    /\ new.available = menu_items[i].available
    /\ UpdateMenuItem(i, new)

DecrementEntries == [id : Items, quantity : 0 .. MaxStock + 1]

CallDecrement(items) ==
    /\ menu_items' = decrement_menu_item_stock(menu_items, items)
    /\ UNCHANGED <<orders, order_items, now, sub, tracking, card, cart>>

(***************************************************************************)
(* createOrder, one action per request to the database.                    *)
(***************************************************************************)
Submit(s, payload) ==
    /\ sub' = [sub EXCEPT ![s] =
          [IdleSub EXCEPT !.pc = "inventory_check",
                          !.payload = payload,
                          !.stockAdjustments = StockAdjustments(payload.items)]]
    /\ UNCHANGED <<menu_items, orders, order_items, now, tracking, card, cart>>

\* the way from the cart to createOrder: Cart shows no checkout for an empty
\* cart, Checkout goes on only with valid details
PlaceOrder(s, cartItems, details, clientIp) ==
    /\ IF cartItems = <<>> \/ ~isDetailsValid(details)
       THEN sub' = [sub EXCEPT ![s] =
               [IdleSub EXCEPT !.pc = "rejected", !.error = "ValidationError",
                               !.details = details, !.payload.items = cartItems]]
       ELSE LET payload == [items |-> cartItems,
                            contactNumber |-> details.contactNumber,
                            clientIp |-> clientIp,
                            total |-> getTotalPrice(cartItems)]
            IN  sub' = [sub EXCEPT ![s] =
                   [IdleSub EXCEPT !.pc = "inventory_check",
                                   !.details = details,
                                   !.payload = payload,
                                   !.stockAdjustments = StockAdjustments(cartItems)]]
    /\ UNCHANGED <<menu_items, orders, order_items, now, tracking, card, cart>>

\* Phase 1: select the snapshot, find an insufficient row, throw
InventoryCheck(s) ==
    /\ sub[s].pc = "inventory_check"
    /\ LET inventorySnapshot ==
               InventorySnapshot(menu_items, DOMAIN sub[s].stockAdjustments)
           insufficient == InsufficientItems(inventorySnapshot, sub[s].stockAdjustments)
       IN  IF insufficient /= {}
           THEN \E insufficientItem \in insufficient :
                    sub' = [sub EXCEPT ![s].pc = "rejected",
                                       ![s].inventorySnapshot = inventorySnapshot,
                                       ![s].error = "InsufficientStock",
                                       ![s].offending = insufficientItem]
           ELSE sub' = [sub EXCEPT ![s].pc = "insert_order",
                                   ![s].inventorySnapshot = inventorySnapshot]
    /\ UNCHANGED <<menu_items, orders, order_items, now, tracking, card, cart>>

\* Phase 2, the INSERT statement.  Its BEFORE INSERT triggers count the
\* orders committed so far (SELECT COUNT(*) takes no lock and sees no row of
\* a transaction in progress); created_at DEFAULT now() is the time of the
\* statement.  The row joins the table when the request commits (CommitOrder).
InsertOrder(s) ==
    /\ sub[s].pc = "insert_order"
    /\ IF prevent_spam_orders(orders, sub[s].payload.clientIp,
                              sub[s].payload.contactNumber, now)
       THEN Reject(s, "RateLimited", "")
       ELSE sub' = [sub EXCEPT ![s].pc = "commit_order", ![s].created_at = now]
    /\ UNCHANGED <<menu_items, orders, order_items, now, tracking, card, cart>>

NextOrderId == Cardinality(orders) + 1

CommitOrder(s) ==
    /\ sub[s].pc = "commit_order"
    /\ orders' = orders \cup {[id |-> NextOrderId,
                               contact_number |-> sub[s].payload.contactNumber,
                               ip_address |-> sub[s].payload.clientIp,
                               total |-> sub[s].payload.total,
                               created_at |-> sub[s].created_at]}
    /\ sub' = [sub EXCEPT ![s].pc = "insert_items", ![s].order_id = NextOrderId]
    /\ UNCHANGED <<menu_items, order_items, now, tracking, card, cart>>

\* Phase 2 fails for storage reasons
InsertOrderFails(s) ==
    /\ sub[s].pc = "insert_order"
    /\ Reject(s, "PersistenceError", "")
    /\ UNCHANGED <<menu_items, orders, order_items, now, tracking, card, cart>>

\* Phase 3: payload.items.map(..) and one INSERT of the batch
OrderItemsOf(order_id, items) ==
    {[order_id |-> order_id, line |-> k, item_id |-> items[k].menuItemId,
      unit_price |-> items[k].totalPrice,
      quantity |-> items[k].quantity,
      subtotal |-> items[k].totalPrice * items[k].quantity] : k \in 1 .. Len(items)}

InsertOrderItems(s) ==
    /\ sub[s].pc = "insert_items"
    /\ order_items' = order_items \cup OrderItemsOf(sub[s].order_id, sub[s].payload.items)
    /\ sub' = [sub EXCEPT ![s].pc = "decrement"]
    /\ UNCHANGED <<menu_items, orders, now, tracking, card, cart>>

\* the failed insert answered by a new attempt at the order
InsertOrderItemsRetries(s) ==
    /\ sub[s].pc = "insert_items"
    /\ sub' = [sub EXCEPT ![s].pc = "insert_order"]
    /\ UNCHANGED <<menu_items, orders, order_items, now, tracking, card, cart>>

\* the failed insert not thrown: the submission goes on to the decrement
InsertOrderItemsFailsIgnored(s) ==
    /\ sub[s].pc = "insert_items"
    /\ sub' = [sub EXCEPT ![s].pc = "decrement"]
    /\ UNCHANGED <<menu_items, orders, order_items, now, tracking, card, cart>>

\* Phase 3 fails: the request of Phase 2 has long been committed
InsertOrderItemsFails(s) ==
    /\ sub[s].pc = "insert_items"
    /\ Reject(s, "PersistenceError", "")
    /\ UNCHANGED <<menu_items, orders, order_items, now, tracking, card, cart>>

\* read in the application, then write: the stock of the snapshot minus the
\* ordered quantity is written back
DecrementStockFromSnapshot(s) ==
    /\ sub[s].pc = "decrement"
    /\ menu_items' = [i \in Items |->
          IF i \in DOMAIN sub[s].stockAdjustments /\ menu_items[i].track_inventory = "true"
          THEN sync_menu_item_availability(menu_items[i],
                  [menu_items[i] EXCEPT !.stock_quantity =
                      DecrementedQuantity(sub[s].inventorySnapshot[i].stock_quantity,
                                          sub[s].stockAdjustments[i])])
          ELSE menu_items[i]]
    /\ sub' = [sub EXCEPT ![s].pc = "completed"]
    /\ UNCHANGED <<orders, order_items, now, tracking, card, cart>>

\* Phase 4: rpc('decrement_menu_item_stock', { items: inventoryPayload })
DecrementStock(s) ==
    /\ sub[s].pc = "decrement"
    /\ menu_items' = decrement_menu_item_stock(menu_items,
                          InventoryPayload(sub[s].stockAdjustments))
    /\ sub' = [sub EXCEPT ![s].pc = "completed"]
    /\ UNCHANGED <<orders, order_items, now, tracking, card, cart>>

\* the failure of Phase 4 thrown like the failures of the phases before
DecrementStockFailsRejects(s) ==
    /\ sub[s].pc = "decrement"
    /\ Reject(s, "PersistenceError", "")
    /\ UNCHANGED <<menu_items, orders, order_items, now, tracking, card, cart>>

\* Phase 4 fails: logged, the order stays
DecrementStockFails(s) ==
    /\ sub[s].pc = "decrement"
    /\ sub' = [sub EXCEPT ![s].pc = "completed", ![s].warning = TRUE]
    /\ UNCHANGED <<menu_items, orders, order_items, now, tracking, card, cart>>

Tick ==
    /\ now < MaxTicks * TickSeconds
    /\ now' = now + TickSeconds
    /\ UNCHANGED <<menu_items, orders, order_items, sub, tracking, card, cart>>

Step(s) ==
    \/ InventoryCheck(s)
    \/ InsertOrder(s)
    \/ CommitOrder(s)
    \/ InsertOrderFails(s)
    \/ InsertOrderItems(s)
    \/ InsertOrderItemsFails(s)
    \/ DecrementStock(s)
    \/ DecrementStockFails(s)

(***************************************************************************)
(* Order tracking: search_order_by_id and the search by phone number.      *)
(***************************************************************************)
\* o.id::text: the text of a uuid is in lower case with hyphens; the text of
\* the n-th identifier, shortened
id_text(id) ==
    CASE id = 1 -> <<"a", "b">>
      [] id = 2 -> <<"b", "-">>
      [] id = 3 -> <<"a", "-", "a">>
      [] OTHER  -> <<"-", "b", "b">>

\* the characters of a search term: letters of both cases, the hyphen, and
\* the characters that LIKE reads as wildcards and escape
TermChars == {"a", "B", "-", "_", "%", "\\"}

lower(c) == IF c = "A" THEN "a" ELSE IF c = "B" THEN "b" ELSE c

\* text ILIKE pattern: % is any run of characters, _ any one character, a
\* backslash takes the next character literally, letters match in any case
RECURSIVE ILIKE(_, _)
ILIKE(text, pattern) ==
    IF pattern = <<>> THEN text = <<>>
    ELSE IF Head(pattern) = "%"
         THEN ILIKE(text, Tail(pattern)) \/ (text /= <<>> /\ ILIKE(Tail(text), pattern))
    ELSE IF Head(pattern) = "\\" /\ Len(pattern) > 1
         THEN /\ text /= <<>>
              /\ lower(Head(text)) = lower(pattern[2])
              /\ ILIKE(Tail(text), Tail(Tail(pattern)))
    ELSE /\ text /= <<>>
         /\ (Head(pattern) = "_" \/ lower(Head(text)) = lower(Head(pattern)))
         /\ ILIKE(Tail(text), Tail(pattern))

\* ORDER BY created_at DESC LIMIT 1: the results the statement can return,
\* one per row with the latest created_at (none for no rows)
order_by_created_at_desc_limit_1(rows) ==
    IF rows = {} THEN {{}}
    ELSE {{o} : o \in {r \in rows : \A m \in rows : m.created_at <= r.created_at}}

\* WHERE o.id::text ILIKE '%' || search_term || '%' ORDER BY .. LIMIT 1
search_order_by_id(table, search_term) ==
    order_by_created_at_desc_limit_1(
        {o \in table : ILIKE(id_text(o.id), <<"%">> \o search_term \o <<"%">>)})

\* the phone number taken as the beginning of the stored one
findByContactPrefix(table, contactNumber) ==
    order_by_created_at_desc_limit_1(
        {o \in table : /\ Len(o.contact_number) >= Len(contactNumber)
                       /\ SubSeq(o.contact_number, 1, Len(contactNumber)) = contactNumber})

\* .eq('contact_number', value), the most recent first, one row
findMostRecentByContact(table, contactNumber) ==
    order_by_created_at_desc_limit_1({o \in table : o.contact_number = contactNumber})

\* the number of recent orders the fallback fetches
FallbackLimit == 100

toLowerCase(t) == [k \in 1 .. Len(t) |-> lower(t[k])]

\* String.prototype.includes: the fragment occurs in the text, character by
\* character
includes(text, fragment) ==
    \E i \in 0 .. Len(text) - Len(fragment) :
        SubSeq(text, i + 1, i + Len(fragment)) = fragment

\* ORDER BY created_at DESC LIMIT n: the sets of rows the statement can return
most_recent(table, n) ==
    {W \in SUBSET table :
        /\ Cardinality(W) = IF Cardinality(table) < n THEN Cardinality(table) ELSE n
        /\ \A o \in W, p \in table \ W : p.created_at <= o.created_at}

\* the fallback of the search by order ID: the most recent orders fetched,
\* filtered in the browser by the search term, the first match shown
search_order_fallback(table, search_term) ==
    UNION {order_by_created_at_desc_limit_1(
               {o \in W : includes(id_text(o.id), toLowerCase(search_term))}) :
           W \in most_recent(table, FallbackLimit)}

SearchTerms == SeqsUpTo(TermChars, MaxTermLen)

PhoneNumbers == {<<"1">>, <<"1", "2">>, <<"1", " ">>, <<"2">>}

SearchById(search_term) ==
    /\ \E rows \in search_order_by_id(orders, search_term) :
          tracking' = [searchType |-> "orderId", searchValue |-> search_term, rows |-> rows]
    /\ UNCHANGED <<menu_items, orders, order_items, now, sub, card, cart>>

\* the search by order ID where the database function is not installed
SearchByIdFallback(search_term) ==
    /\ \E rows \in search_order_fallback(orders, search_term) :
          tracking' = [searchType |-> "orderIdFallback", searchValue |-> search_term,
                       rows |-> rows]
    /\ UNCHANGED <<menu_items, orders, order_items, now, sub, card, cart>>

SearchByPhone(contactNumber) ==
    /\ \E rows \in findMostRecentByContact(orders, contactNumber) :
          tracking' = [searchType |-> "phone", searchValue |-> contactNumber, rows |-> rows]
    /\ UNCHANGED <<menu_items, orders, order_items, now, sub, card, cart>>

\* the orders table as order creation can have left it: identifiers in the
\* order of creation, any phone numbers, any creation times
StoredOrders ==
    {[id |-> id, contact_number |-> n, ip_address |-> NULLTEXT,
      total |-> UnitPrice("B2"), created_at |-> t] :
        id \in {1, 2}, n \in {<<"1">>, <<"1", "2">>}, t \in {0, TickSeconds}}

InitSearch ==
    /\ menu_items = [i \in Items |-> InsertRow(UntrackedRow)]
    /\ orders \in {table \in SUBSET StoredOrders :
                      \A o1, o2 \in table : o1.id = o2.id => o1 = o2}
    /\ order_items = {}
    /\ now = TickSeconds
    /\ sub = [s \in Subs |-> IdleSub]
    /\ tracking = NoSearch
    /\ card = InitialCard(CardItemA1)
    /\ cart = <<>>

(***************************************************************************)
(* The controls of MenuItemCard.                                           *)
(***************************************************************************)
\* the Add to Cart button of the card: the item has add-ons, the modal opens
handleAddToCart ==
    /\ ~card.showCustomization
    /\ card' = [card EXCEPT !.showCustomization = TRUE]
    /\ UNCHANGED <<menu_items, orders, order_items, now, sub, tracking, cart>>

\* the X of the modal: setShowCustomization(false), the selections stay
CloseCustomization ==
    /\ card.showCustomization
    /\ card' = [card EXCEPT !.showCustomization = FALSE]
    /\ UNCHANGED <<menu_items, orders, order_items, now, sub, tracking, cart>>

\* a radio button of Choose Size
setSelectedVariation(variation) ==
    /\ card.showCustomization
    /\ \E k \in 1 .. Len(card.item.variations) : card.item.variations[k] = variation
    /\ card' = [card EXCEPT !.selectedVariation = variation]
    /\ UNCHANGED <<menu_items, orders, order_items, now, sub, tracking, cart>>

\* the Add button, shown while the add-on is not selected
ClickAdd(addOn) ==
    /\ card.showCustomization
    /\ currentQuantity(card.selectedAddOns, addOn.id) = NULL
    /\ TotalQuantity(card.selectedAddOns) < MaxAddOnQty
    /\ card' = [card EXCEPT !.selectedAddOns = updateAddOnQuantity(@, addOn, 1)]
    /\ UNCHANGED <<menu_items, orders, order_items, now, sub, tracking, cart>>

\* the minus button, shown while the add-on is selected
ClickMinus(addOn) ==
    /\ card.showCustomization
    /\ currentQuantity(card.selectedAddOns, addOn.id) /= NULL
    /\ card' = [card EXCEPT !.selectedAddOns =
                   updateAddOnQuantity(@, addOn,
                       OrElse(currentQuantity(card.selectedAddOns, addOn.id), 1) - 1)]
    /\ UNCHANGED <<menu_items, orders, order_items, now, sub, tracking, cart>>

\* the plus button, shown while the add-on is selected
ClickPlus(addOn) ==
    /\ card.showCustomization
    /\ currentQuantity(card.selectedAddOns, addOn.id) /= NULL
    /\ TotalQuantity(card.selectedAddOns) < MaxAddOnQty
    /\ card' = [card EXCEPT !.selectedAddOns =
                   updateAddOnQuantity(@, addOn,
                       OrElse(currentQuantity(card.selectedAddOns, addOn.id), 0) + 1)]
    /\ UNCHANGED <<menu_items, orders, order_items, now, sub, tracking, cart>>

\* the Add to Cart button of the modal
handleCustomizedAddToCart ==
    /\ card.showCustomization
    /\ TotalQuantity(cart) < MaxCartQty
    /\ cart' = addToCart(cart, card.item, 1, card.selectedVariation,
                         addOnsForCart(card.selectedAddOns))
    /\ card' = [card EXCEPT !.showCustomization = FALSE, !.selectedAddOns = <<>>]
    /\ UNCHANGED <<menu_items, orders, order_items, now, sub, tracking>>

\* a card as mounted for an item of the menu, the cart empty
InitCard ==
    /\ menu_items = [i \in Items |-> InsertRow(UntrackedRow)]
    /\ orders = {}
    /\ order_items = {}
    /\ now = 0
    /\ sub = [s \in Subs |-> IdleSub]
    /\ tracking = NoSearch
    /\ card \in {InitialCard(item) : item \in CardItems}
    /\ cart = <<>>

(***************************************************************************)
(* Specifications.                                                         *)
(***************************************************************************)
\* searches on the Track Order page over a table of orders
NextSearch ==
    \/ \E search_term \in SearchTerms : SearchById(search_term)
    \/ \E search_term \in SearchTerms : SearchByIdFallback(search_term)
    \/ \E contactNumber \in PhoneNumbers : SearchByPhone(contactNumber)

SpecSearch == InitSearch /\ [][NextSearch]_vars

\* the menu_items table under administration and decrements
NextStock ==
    \/ \E i \in AdministeredItems, new \in MenuRow : UpdateMenuItem(i, new)
    \/ \E items \in SeqsUpTo(DecrementEntries, 2) : CallDecrement(items)

SpecStock == InitStock /\ [][NextStock]_vars

\* a catalog in sync: one item inserted with any columns and edited from
\* there on, one tracked item that only orders touch
InitSync ==
    /\ menu_items \in {[i \in Items |-> IF i \in AdministeredItems THEN InsertRow(new)
                                         ELSE InsertRow(TrackedRow)] : new \in MenuRow}
    /\ InitOrders

\* stock edits and order decrements, `available` never written by hand
NextSync ==
    \/ \E i \in AdministeredItems, new \in MenuRow : EditStock(i, new)
    \/ \E items \in SeqsUpTo(DecrementEntries, 2) : CallDecrement(items)

SpecSync == InitSync /\ [][NextSync]_vars

\* one card and its modal, handing selections to the cart
NextCard ==
    \/ handleAddToCart
    \/ CloseCustomization
    \/ \E variation \in {CardItemA1.variations[k] : k \in 1 .. Len(CardItemA1.variations)} :
          setSelectedVariation(variation)
    \/ \E addOn \in AddOns : ClickAdd(addOn)
    \/ \E addOn \in AddOns : ClickMinus(addOn)
    \/ \E addOn \in AddOns : ClickPlus(addOn)
    \/ handleCustomizedAddToCart

SpecCard == InitCard /\ [][NextCard]_vars

\* two customers with identifiers of their own
CustomerOf(s) ==
    IF s = "s1" THEN [contactNumber |-> <<"1">>, clientIp |-> "203.0.113.7"]
    ELSE [contactNumber |-> <<"2">>, clientIp |-> "198.51.100.9"]

OwnPayloads(s) ==
    {p \in Payloads(Carts) : /\ p.contactNumber = CustomerOf(s).contactNumber
                             /\ p.clientIp = CustomerOf(s).clientIp}

\* concurrent customers, each placing one order
Next ==
    \/ \E s \in Subs : \E p \in OwnPayloads(s) : sub[s].pc = "idle" /\ Submit(s, p)
    \/ \E s \in Subs : Step(s)

Spec == Init /\ [][Next]_vars

\* the same customers, one createOrder call at a time
NextSeq ==
    \/ \E s \in Subs : \E p \in OwnPayloads(s) :
          /\ sub[s].pc = "idle"
          /\ \A t \in Subs \ {s} : sub[t].pc = "idle" \/ Terminal(t)
          /\ Submit(s, p)
    \/ \E s \in Subs : Step(s)

SpecSeq == Init /\ [][NextSeq]_vars

\* orders of one untracked item: the stock plays no part
RateCarts == {c \in Carts : Len(c) = 1 /\ c[1].menuItemId = "B2" /\ c[1].quantity = 1}

\* one customer session placing order after order, under the clock
NextRate ==
    \/ \E p \in Payloads(RateCarts) :
          /\ sub["s1"].pc = "idle" \/ Terminal("s1")
          /\ Cardinality(orders) < MaxOrders
          /\ Submit("s1", p)
    \/ Step("s1")
    \/ Tick

SpecRate == Init /\ [][NextRate]_vars

\* two sessions, any identifiers, one order each, inserted concurrently
NextRace ==
    \/ \E s \in Subs, p \in Payloads(RateCarts) : sub[s].pc = "idle" /\ Submit(s, p)
    \/ \E s \in Subs : Step(s)
    \/ Tick

SpecRace == Init /\ [][NextRace]_vars

\* carts of the tracked item only
GateCarts == {c \in Carts : \A k \in 1 .. Len(c) : c[k].menuItemId = "A1"}

\* orders of the tracked item from one phone number, or from none
LivePayloads ==
    {p \in Payloads(GateCarts) :
        p.clientIp = NULLTEXT /\ p.contactNumber \in {<<"1">>, <<" ">>}}

\* orders of the tracked item from any phone number, the address unknown
GatePayloads == {p \in Payloads(GateCarts) : p.clientIp = NULLTEXT}

\* one customer session ordering the tracked item again and again
NextGate ==
    \/ \E p \in GatePayloads :
          /\ sub["s1"].pc = "idle" \/ Terminal("s1")
          /\ Cardinality(orders) < MaxOrders
          /\ Submit("s1", p)
    \/ Step("s1")

SpecGate == Init /\ [][NextGate]_vars

\* one customer going through cart and checkout once, with any details
NextCheckout ==
    \/ \E cartItems \in RateCarts \cup {<<>>}, details \in CheckoutDetails,
           clientIp \in IpAddresses :
          sub["s1"].pc = "idle" /\ PlaceOrder("s1", cartItems, details, clientIp)
    \/ Step("s1")

SpecCheckout == Init /\ [][NextCheckout]_vars

\* two calls of createOrder, each run to its end
NextLive ==
    \/ \E s \in Subs, p \in LivePayloads : sub[s].pc = "idle" /\ Submit(s, p)
    \/ \E s \in Subs : Step(s)

\* every request to the database is answered, by a result or by an error,
\* and the call goes on from there
SpecLive == Init /\ [][NextLive]_vars /\ \A s \in Subs : WF_vars(Step(s))

(***************************************************************************)
(* Properties of the menu_items table (SpecStock).                         *)
(***************************************************************************)
Tracked(row) == row.track_inventory = "true"

NonNegativeStock ==
    \A i \in Items :
        Tracked(menu_items[i]) =>
            /\ menu_items[i].stock_quantity >= 0
            /\ menu_items[i].low_stock_threshold >= 0

DecrementClamps ==
    \A entry \in DecrementEntries :
        ( /\ CallDecrement(<<entry>>)
          /\ Tracked(menu_items[entry.id])
          /\ entry.quantity > menu_items[entry.id].stock_quantity )
        => menu_items'[entry.id].stock_quantity = 0

\* C1: on a tracked item stock_quantity and low_stock_threshold are never
\* negative (nor NULL), whatever is written or decremented, and a decrement
\* by more than the current quantity leaves the quantity at 0.
C1_StockNeverNegative == []NonNegativeStock /\ [][DecrementClamps]_vars

\* a tracked item at stock 0 whose threshold was edited too
C1_Witness ==
    /\ Tracked(menu_items["A1"])
    /\ menu_items["A1"].stock_quantity = 0
    /\ menu_items["A1"].low_stock_threshold = MaxThreshold

\* C5: on a tracked item an update that writes only an unrelated column
\* (the name) leaves `available` as it was, also when it contradicts the
\* stock level.
C5_AvailabilityPreserved ==
    [][\A i \in Items, name \in Names :
          ( /\ UpdateMenuItem(i, [menu_items[i] EXCEPT !.name = name])
            /\ Tracked(menu_items[i]) )
          => menu_items'[i].available = menu_items[i].available]_vars

\* a renamed tracked item that still carries a manual override
C5_Witness ==
    /\ Tracked(menu_items["A1"])
    /\ menu_items["A1"].name = "Dog Food 1 kg"
    /\ menu_items["A1"].available /= (menu_items["A1"].stock_quantity
                                        > menu_items["A1"].low_stock_threshold)

\* C6: on a tracked item every write that changes the stored stock_quantity
\* or low_stock_threshold ends with available = (stock_quantity >
\* low_stock_threshold) on the stored (clamped) values, whatever `available`
\* was before or was written with it.
C6_AvailabilityRecomputed ==
    [][\A i \in Items :
          ( /\ Tracked(menu_items'[i])
            /\ \/ menu_items'[i].stock_quantity /= menu_items[i].stock_quantity
               \/ menu_items'[i].low_stock_threshold /= menu_items[i].low_stock_threshold )
          => menu_items'[i].available = (menu_items'[i].stock_quantity
                                           > menu_items'[i].low_stock_threshold)]_vars

\* a tracked item, restocked above its threshold and available
C6_Witness ==
    /\ Tracked(menu_items["A1"])
    /\ menu_items["A1"].stock_quantity = MaxStock
    /\ menu_items["A1"].low_stock_threshold = MaxThreshold
    /\ menu_items["A1"].available

(***************************************************************************)
(* Properties of createOrder.                                              *)
(***************************************************************************)
ItemsOfOrder(order_id) == {it \in order_items : it.order_id = order_id}

\* C2: after a failed insert of the line items no order header is left
\* without line items: the header of a rejected submission is not found.
C2_AtomicOrder ==
    \A s \in Subs :
        sub[s].pc = "rejected" =>
            \A o \in orders : o.id = sub[s].order_id => ItemsOfOrder(o.id) /= {}

\* the step of s is the INSERT into orders with its triggers
IsInsertOrder(s) ==
    /\ sub[s].pc = "insert_order"
    /\ sub'[s].pc \in {"commit_order", "rejected"}
    /\ sub'[s].error /= "PersistenceError"

Elapsed(o) == now - o.created_at

RateWindowStep(s) ==
    LET contact == sub[s].payload.contactNumber
        ip == sub[s].payload.clientIp
    IN  (IsInsertOrder(s) /\ Len(trim(contact)) > 0) =>
          /\ (\E o \in orders : o.contact_number = contact /\ Elapsed(o) < Cooldown)
                => /\ sub'[s].pc = "rejected"
                   /\ sub'[s].error = "RateLimited"
                   /\ orders' = orders
          /\ (\A o \in orders : (o.contact_number = contact \/ o.ip_address = ip)
                                    => Elapsed(o) > Cooldown)
                => sub'[s].pc = "commit_order"

RateLimitedPersistsNothing ==
    \A s \in Subs :
        (sub[s].pc = "rejected" /\ sub[s].error = "RateLimited") => sub[s].order_id = NULL

\* C3: a submission whose contact number has an order inside the cooldown
\* is rejected as RateLimited and persists nothing; one with no order of its
\* identifiers (the first), or only orders older than the cooldown (the
\* third), is admitted.
C3_RateWindow == []RateLimitedPersistsNothing /\ [][\A s \in Subs : RateWindowStep(s)]_vars

\* two orders of one contact number, the later one after the cooldown
C3_Witness ==
    \E o1, o2 \in orders :
        /\ o1.contact_number = o2.contact_number
        /\ Len(trim(o1.contact_number)) > 0
        /\ o2.created_at - o1.created_at > Cooldown

SameIdentifier(o1, o2) ==
    \/ o1.ip_address /= NULLTEXT /\ o1.ip_address = o2.ip_address
    \/ Len(trim(o1.contact_number)) > 0 /\ o1.contact_number = o2.contact_number

\* C4: of the orders persisted for one identifier, no two lie within one
\* cooldown window, whatever the interleaving of the submissions.
C4_OnePerWindow ==
    \A o1, o2 \in orders :
        (o1 /= o2 /\ SameIdentifier(o1, o2))
            => (o1.created_at - o2.created_at > Cooldown \/ o2.created_at - o1.created_at > Cooldown)

\* the quantity requested of one item, summed line by line
RequestedTotal(items, id) ==
    LET RECURSIVE upto(_)
        upto(k) == IF k = 0 THEN 0
                   ELSE upto(k - 1) + (IF items[k].menuItemId = id THEN items[k].quantity ELSE 0)
    IN  upto(Len(items))

Available(id) == COALESCE(menu_items[id].stock_quantity, 0)

IsInventoryCheck(s) == sub[s].pc = "inventory_check" /\ sub'[s].pc /= "inventory_check"

\* C7: the stock check compares the sum of the quantities of all lines of a
\* tracked item with its stock: a cart whose lines sum to more is rejected
\* with InsufficientStock, also when every line alone fits.
C7_AggregateCheck ==
    [][\A s \in Subs :
          ( /\ IsInventoryCheck(s)
            /\ \E id \in Items : /\ Tracked(menu_items[id])
                                 /\ RequestedTotal(sub[s].payload.items, id) > Available(id) )
          => sub'[s].pc = "rejected" /\ sub'[s].error = "InsufficientStock"]_vars

\* rejected although each of the two lines fits the stock that is left
C7_Witness ==
    \E s \in Subs :
        /\ sub[s].pc = "rejected" /\ sub[s].error = "InsufficientStock"
        /\ Len(sub[s].payload.items) = 2
        /\ \A k \in 1 .. 2 :
              /\ sub[s].payload.items[k].menuItemId = sub[s].offending
              /\ sub[s].payload.items[k].quantity <= Available(sub[s].offending)

Shortfall(s) ==
    {id \in DOMAIN sub[s].stockAdjustments :
        Tracked(menu_items[id]) /\ Available(id) < sub[s].stockAdjustments[id]}

InsufficientStockStep(s) ==
    (IsInventoryCheck(s) /\ Shortfall(s) /= {}) =>
        /\ sub'[s].pc = "rejected"
        /\ sub'[s].error = "InsufficientStock"
        /\ sub'[s].offending \in Shortfall(s)
        /\ UNCHANGED <<orders, order_items, menu_items>>

InsufficientStockPersistsNothing ==
    \A s \in Subs :
        (sub[s].pc = "rejected" /\ sub[s].error = "InsufficientStock")
            => sub[s].order_id = NULL

\* C8: a shortfall of a tracked item at the stock check rejects the
\* submission with InsufficientStock naming such an item; no order header,
\* no line item is persisted and no stock quantity changes.
C8_InsufficientStock ==
    []InsufficientStockPersistsNothing /\ [][\A s \in Subs : InsufficientStockStep(s)]_vars

\* rejected for A1 with one unit left, as the snapshot read it, and nothing
\* persisted but the order of the other customer
C8_Witness ==
    \E s \in Subs :
        /\ sub[s].pc = "rejected" /\ sub[s].error = "InsufficientStock"
        /\ sub[s].offending = "A1"
        /\ sub[s].stockAdjustments["A1"] = 2
        /\ sub[s].inventorySnapshot["A1"].stock_quantity = 1
        /\ menu_items["A1"].stock_quantity = 1
        /\ sub[s].order_id = NULL
        /\ Cardinality(orders) = 1
        /\ \A it \in order_items : it.order_id = 1

IsSuccessfulDecrement(s) ==
    sub[s].pc = "decrement" /\ sub'[s].pc = "completed" /\ ~sub'[s].warning

\* C9: run alone, a submission that succeeds holds its OrderId and leaves
\* every tracked item of the cart at its quantity of the stock check minus
\* the summed quantity ordered, with available = quantity > threshold.
C9_DecrementByAggregate ==
    [][\A s \in Subs :
          IsSuccessfulDecrement(s) =>
             /\ sub'[s].order_id /= NULL
             /\ \A id \in Items :
                   (Tracked(menu_items[id]) /\ RequestedTotal(sub[s].payload.items, id) > 0)
                   => /\ menu_items'[id].stock_quantity =
                            sub[s].inventorySnapshot[id].stock_quantity
                              - RequestedTotal(sub[s].payload.items, id)
                      /\ menu_items'[id].available =
                            (menu_items'[id].stock_quantity
                               > menu_items'[id].low_stock_threshold)]_vars

\* completed with two lines of A1, the stock down by two
C9_Witness ==
    \E s \in Subs :
        /\ sub[s].pc = "completed" /\ ~sub[s].warning
        /\ Len(sub[s].payload.items) = 2
        /\ RequestedTotal(sub[s].payload.items, "A1") = 2
        /\ menu_items["A1"].stock_quantity = InitialStock - 2

Decremented(s) == sub[s].pc = "completed" /\ ~sub[s].warning

\* the quantity of id in the decrement call of s, 0 when it has none
DecrementOf(s, id) ==
    IF Decremented(s) /\ id \in DOMAIN sub[s].stockAdjustments
    THEN sub[s].stockAdjustments[id] ELSE 0

RECURSIVE DecrementedTotal(_, _)
DecrementedTotal(S, id) ==
    IF S = {} THEN 0
    ELSE LET s == CHOOSE x \in S : TRUE
         IN  DecrementOf(s, id) + DecrementedTotal(S \ {s}, id)

\* C10: no decrement is lost: the stock of the tracked item is the initial
\* stock minus all quantities decremented by the submissions so far,
\* clamped at 0, under every interleaving.
C10_NoLostDecrement ==
    menu_items["A1"].stock_quantity =
        GREATEST(InitialStock - DecrementedTotal(Subs, "A1"), 0)

\* both submissions decremented A1 and some stock is left
C10_Witness ==
    /\ \A s \in Subs : DecrementOf(s, "A1") > 0
    /\ menu_items["A1"].stock_quantity = InitialStock - DecrementedTotal(Subs, "A1")
    /\ menu_items["A1"].stock_quantity > 0

(***************************************************************************)
(* Properties of the identifier gate and of the order of the gates.        *)
(***************************************************************************)
Blank(contact) == \A k \in 1 .. Len(contact) : contact[k] = " "

NoIdentifier(s) ==
    sub[s].payload.clientIp = NULLTEXT /\ Blank(sub[s].payload.contactNumber)

MissingIdentifierStep(s) ==
    (IsInsertOrder(s) /\ NoIdentifier(s)) =>
        /\ sub'[s].pc = "rejected"
        /\ sub'[s].error = "RateLimited"
        /\ sub'[s].order_id = NULL
        /\ UNCHANGED <<orders, order_items, menu_items>>

\* a submission without identifiers never gets past the insert
NeverAdmitted(s) ==
    NoIdentifier(s) =>
        /\ sub[s].order_id = NULL
        /\ sub[s].pc \in {"idle", "inventory_check", "insert_order", "rejected"}

SameIp(s, o) ==
    sub[s].payload.clientIp /= NULLTEXT /\ o.ip_address = sub[s].payload.clientIp

SameContact(s, o) ==
    ~Blank(sub[s].payload.contactNumber) /\ o.contact_number = sub[s].payload.contactNumber

\* an order of the trailing cooldown window with the address or the contact
\* number of the submission
RecentMatch(s) ==
    \E o \in orders : Elapsed(o) <= Cooldown /\ (SameIp(s, o) \/ SameContact(s, o))

\* the triggers would reject the insert of this submission now
FailsGate(s) == NoIdentifier(s) \/ RecentMatch(s)

\* C12: a submission that fails the rate-limit / identifier gate is never
\* reported as InsufficientStock: the gate is evaluated before the stock
\* check, so that no stock check decides such a submission.
C12_GateBeforeStock ==
    [][\A s \in Subs :
          (sub[s].pc = "inventory_check" /\ FailsGate(s))
          => ~(sub'[s].pc = "rejected" /\ sub'[s].error = "InsufficientStock")]_vars

(***************************************************************************)
(* Properties of the end of createOrder.                                   *)
(***************************************************************************)
Persisted(s) ==
    /\ sub[s].order_id /= NULL
    /\ \E o \in orders : o.id = sub[s].order_id
    /\ ItemsOfOrder(sub[s].order_id) /= {}

\* whatever the decrement step does, the submission ends completed with
\* its OrderId, and nothing persisted is taken back
DecrementStepCompletes(s) ==
    (sub[s].pc = "decrement" /\ sub'[s] /= sub[s]) =>
        /\ sub'[s].pc = "completed"
        /\ sub'[s].order_id = sub[s].order_id
        /\ UNCHANGED <<orders, order_items>>

CompletedStays(s) == sub[s].pc = "completed" => sub'[s].pc = "completed"

\* C13: a failure of the stock decrement, after header and line items were
\* persisted, ends the submission completed with its OrderId; the order and
\* its items stay persisted and the submission never becomes rejected.
C13_DecrementFailureSwallowed ==
    /\ [](\A s \in Subs : sub[s].pc \in {"decrement", "completed"} => Persisted(s))
    /\ [][\A s \in Subs : DecrementStepCompletes(s) /\ CompletedStays(s)]_vars

\* completed with the warning: the order of A1 is persisted, its stock is
\* not decremented
C13_Witness ==
    \E s \in Subs :
        /\ sub[s].pc = "completed" /\ sub[s].warning
        /\ Persisted(s)
        /\ "A1" \in DOMAIN sub[s].stockAdjustments
        /\ menu_items["A1"].stock_quantity = InitialStock

RECURSIVE SumOfSubtotals(_)
SumOfSubtotals(rows) ==
    IF rows = {} THEN 0
    ELSE LET r == CHOOSE x \in rows : TRUE
         IN  r.unit_price * r.quantity + SumOfSubtotals(rows \ {r})

\* C14: once the call that created it has ended, the total of every
\* persisted order is the sum of unit_price * quantity over its line items.
C14_TotalIsSum ==
    \A s \in Subs :
        Terminal(s) =>
            \A o \in orders :
                o.id = sub[s].order_id => o.total = SumOfSubtotals(ItemsOfOrder(o.id))

\* nothing of a rejected submission is in the tables
NothingPersisted(s) ==
    /\ \A o \in orders : o.id /= sub[s].order_id
    /\ ItemsOfOrder(sub[s].order_id) = {}

\* the steps of a submission before its decrement leave the stock alone
StockUntouched(s) ==
    (sub'[s] /= sub[s] /\ sub[s].pc /= "decrement") => menu_items' = menu_items

\* C15: a submission rejected at the rate limit, the stock check, the
\* insert of the header or the insert of the items leaves no order header
\* and no line item, and has changed no stock quantity or availability flag.
C15_NoPartialState ==
    /\ [](\A s \in Subs : sub[s].pc = "rejected" => NothingPersisted(s))
    /\ [][\A s \in Subs : StockUntouched(s)]_vars

\* C16: the insert of a submission is rejected as RateLimited, and persists
\* nothing, when an order of the trailing cooldown window has its address
\* OR its contact number, whatever the other identifier is.
C16_EitherIdentifier ==
    [][\A s \in Subs :
          (IsInsertOrder(s) /\ RecentMatch(s))
          => /\ sub'[s].pc = "rejected"
             /\ sub'[s].error = "RateLimited"
             /\ orders' = orders]_vars

\* rate-limited by the address alone: the one order there is was placed
\* with another contact number
C16_Witness ==
    \E s \in Subs :
        /\ sub[s].pc = "rejected" /\ sub[s].error = "RateLimited"
        /\ ~Blank(sub[s].payload.contactNumber)
        /\ Cardinality(orders) = 1
        /\ \A o \in orders : SameIp(s, o) /\ ~SameContact(s, o)

(***************************************************************************)
(* Properties of the validation at checkout.                               *)
(***************************************************************************)
\* what is missing, field by field
Incomplete(lineItems, d) ==
    \/ Len(lineItems) = 0
    \/ d.customerName = ""
    \/ Len(d.contactNumber) = 0
    \/ d.serviceType = "delivery" /\ d.address = ""
    \/ d.serviceType = "pickup" /\ d.pickupTime = "custom" /\ d.customTime = ""
    \/ d.serviceType = "dine-in" /\ ~(d.partySize > 0 /\ d.dineInTime /= "")

ValidationStep(s) ==
    ( /\ sub[s].pc = "idle" /\ sub'[s].pc /= "idle"
      /\ Incomplete(sub'[s].payload.items, sub'[s].details) )
    => /\ sub'[s].pc = "rejected"
       /\ sub'[s].error = "ValidationError"
       /\ sub'[s].order_id = NULL
       /\ UNCHANGED <<orders, order_items, menu_items>>

\* C17: a submission with an empty cart, an empty customer name or contact
\* number, delivery without address, pickup with the custom option and no
\* custom time, or dine-in without party size > 0 and a time, is rejected
\* with ValidationError at once: no gate is evaluated, nothing is persisted.
C17_Validation ==
    /\ [](\A s \in Subs : sub[s].error = "ValidationError" => orders = {})
    /\ [][\A s \in Subs : ValidationStep(s)]_vars

\* rejected for the custom pickup time alone
C17_Witness ==
    \E s \in Subs :
        /\ sub[s].pc = "rejected" /\ sub[s].error = "ValidationError"
        /\ Len(sub[s].payload.items) > 0
        /\ sub[s].details.customerName /= "" /\ Len(sub[s].details.contactNumber) > 0
        /\ sub[s].details.serviceType = "pickup"
        /\ sub[s].details.pickupTime = "custom" /\ sub[s].details.customTime = ""

(***************************************************************************)
(* Properties of the order tracking searches.                              *)
(***************************************************************************)
SameLetter(a, b) ==
    \/ a = b
    \/ {a, b} = {"a", "A"}
    \/ {a, b} = {"b", "B"}

\* the text contains the fragment, letters compared in any case
ContainsFragment(text, fragment) ==
    \E i \in 0 .. Len(text) - Len(fragment) :
        \A k \in 1 .. Len(fragment) : SameLetter(text[i + k], fragment[k])

Latest(rows, o) == o \in rows /\ \A m \in rows : m.created_at <= o.created_at

\* the row shown is a latest one of the matching orders, or none is shown
\* when there is no matching order
ShowsLatestOf(matching) ==
    IF matching = {} THEN tracking.rows = {}
    ELSE \E o \in matching : tracking.rows = {o} /\ Latest(matching, o)

\* C18: a search by order ID returns the order with the latest created_at
\* among the orders whose identifier text contains the fragment, in any
\* case of the letters, and nothing when no order does; never two orders.
C18_FindByFragment ==
    tracking.searchType = "orderId" =>
        ShowsLatestOf({o \in orders : ContainsFragment(id_text(o.id), tracking.searchValue)})

\* C19: a search by phone number returns the order with the latest
\* created_at among the orders whose contact number is exactly the number
\* given, and nothing when there is none.
C19_FindMostRecentByContact ==
    tracking.searchType = "phone" =>
        ShowsLatestOf({o \in orders : o.contact_number = tracking.searchValue})

\* the older order is shown: the newer one has a number that only begins
\* with the number searched
C19_Witness ==
    /\ tracking.searchType = "phone"
    /\ \E o \in orders :
          /\ tracking.rows = {o}
          /\ \E m \in orders :
                /\ m.created_at > o.created_at
                /\ m.contact_number /= o.contact_number
                /\ SubSeq(m.contact_number, 1, Len(o.contact_number)) = o.contact_number

(***************************************************************************)
(* Termination of createOrder.                                             *)
(***************************************************************************)
PhaseOf(pc) ==
    CASE pc = "idle" -> 0
      [] pc = "inventory_check" -> 1
      [] pc = "insert_order" -> 2
      [] pc = "commit_order" -> 3
      [] pc = "insert_items" -> 4
      [] pc = "decrement" -> 5
      [] OTHER -> 6

\* a step of a call goes on to a later phase or ends the call; an error is
\* set by the step that ends the call as rejected and by no other
NoRetry(s) ==
    sub'[s] /= sub[s] =>
        /\ PhaseOf(sub'[s].pc) > PhaseOf(sub[s].pc)
        /\ (sub'[s].error /= "") = (sub'[s].pc = "rejected")

\* a call that has ended stays as it ended
TerminalIsFinal(s) == Terminal(s) => sub'[s] = sub[s]

\* C20: every submission reaches a terminal state, completed or rejected
\* with its error, and stays in it; a failed step ends the call at once, no
\* step is repeated and none runs after a failure.
C20_Termination ==
    /\ \A s \in Subs : (sub[s].pc /= "idle") ~> Terminal(s)
    /\ [][\A s \in Subs : NoRetry(s) /\ TerminalIsFinal(s)]_vars

\* both calls have ended: one completed, the other rejected by the rate limit
C20_Witness ==
    \E s, t \in Subs :
        /\ sub[s].pc = "rejected" /\ sub[s].error = "RateLimited" /\ ~NoIdentifier(s)
        /\ sub[t].pc = "completed"

(***************************************************************************)
(* Tracking toggled (SpecStock).                                           *)
(***************************************************************************)
TrackingToggled(i) == menu_items'[i].track_inventory /= menu_items[i].track_inventory

StockLevelKnown(row) == row.stock_quantity /= NULL /\ row.low_stock_threshold /= NULL

Synced(row) == row.available = (row.stock_quantity > row.low_stock_threshold)

UntrackedNeverInsufficient ==
    \A s \in Subs :
        sub[s].error = "InsufficientStock" => Tracked(menu_items[sub[s].offending])

UntrackedRowsKept ==
    \A i \in Items : ~Tracked(menu_items[i]) => menu_items'[i] = menu_items[i]

\* C22: an item without tracking never makes the stock check fail, whatever
\* quantity is requested, and no step of a submission (the decrement
\* included) changes its row: stock_quantity and available stay as they were.
C22_UntrackedUntouched == []UntrackedNeverInsufficient /\ [][UntrackedRowsKept]_vars

\* a completed order for more units of the untracked item than its stock
\* column holds: the decrement ran and the row is as created
C22_Witness ==
    \E s \in Subs :
        /\ sub[s].pc = "completed"
        /\ ~sub[s].warning
        /\ "B2" \in DOMAIN sub[s].stockAdjustments
        /\ sub[s].stockAdjustments["B2"] > COALESCE(menu_items["B2"].stock_quantity, 0)
        /\ menu_items["B2"] = UntrackedRow

(***************************************************************************)
(* The overdraw race of two concurrent submissions (Spec).                 *)
(***************************************************************************)
\* s read the stock of id in its stock check before any decrement
ReadFullStock(s, id) ==
    /\ id \in DOMAIN sub[s].inventorySnapshot
    /\ sub[s].inventorySnapshot[id].stock_quantity = InitialStock

\* both submissions read the full stock, both decremented, and together
\* they ordered more than the stock
Overdrawn(id) ==
    /\ \A s \in Subs : ReadFullStock(s, id) /\ Decremented(s)
    /\ DecrementedTotal(Subs, id) > InitialStock

\* C23: when two concurrent submissions for the same tracked item both read
\* the stock before either decrements and together order more than the
\* stock, both orders are persisted with their line items and the stock
\* ends at 0, not below, with the item unavailable.
C23_OverdrawEndsAtZero ==
    Overdrawn("A1") =>
        /\ \A s \in Subs : Persisted(s)
        /\ menu_items["A1"].stock_quantity = 0
        /\ ~menu_items["A1"].available

\* the overdraw happened: two orders, each covered by the stock that both
\* read in full, together above it
C23_Witness ==
    /\ Overdrawn("A1")
    /\ \A s \in Subs : sub[s].stockAdjustments["A1"] <= InitialStock
    /\ Cardinality(orders) = 2

(***************************************************************************)
(* The order of the persistent effects of one submission (Spec).           *)
(***************************************************************************)
\* the stock check of s ran and found every item sufficient
PassedStockCheck(s) ==
    /\ DOMAIN sub[s].inventorySnapshot = DOMAIN sub[s].stockAdjustments
    /\ InsufficientItems(sub[s].inventorySnapshot, sub[s].stockAdjustments) = {}

HeaderAfterStockCheck ==
    \A s \in Subs : sub[s].order_id /= NULL => PassedStockCheck(s)

ItemsAfterHeader ==
    \A it \in order_items : \E o \in orders : o.id = it.order_id

\* a step that changes the stock is the decrement of a submission whose
\* header and line items are stored
DecrementAfterItems ==
    menu_items' /= menu_items =>
        \E s \in Subs :
            /\ sub[s].pc /= "completed" /\ sub'[s].pc = "completed"
            /\ PassedStockCheck(s)
            /\ Persisted(s)

\* C24: within a submission the persistent effects come in the order stock
\* check, header, line items, decrement: a header is stored only for a
\* submission that passed the stock check, line items only under a stored
\* header, and the stock is decremented only by a submission whose header
\* and line items are stored.
C24_EffectOrder ==
    /\ [](HeaderAfterStockCheck /\ ItemsAfterHeader)
    /\ [][DecrementAfterItems]_vars

\* all four effects of one submission happened while the other has not begun
C24_Witness ==
    \E s \in Subs :
        /\ Decremented(s) /\ Persisted(s) /\ PassedStockCheck(s)
        /\ DecrementOf(s, "A1") > 0
        /\ menu_items["A1"].stock_quantity = InitialStock - DecrementOf(s, "A1")
        /\ \A t \in Subs \ {s} : sub[t].pc = "idle"

(***************************************************************************)
(* The fallback of the search by order ID (SpecSearch).                    *)
(***************************************************************************)
\* a result of the database function that the fallback's fetch contains
WithinFallbackWindow(result) ==
    result /= {} /\ \E W \in most_recent(orders, FallbackLimit) : result \subseteq W

\* C25: the fallback shows the order that search_order_by_id returns for the
\* same term whenever that order is among the most recent FallbackLimit
\* orders, and shows nothing when it is older than those.
C25_FallbackAgrees ==
    tracking.searchType = "orderIdFallback" =>
        LET found == search_order_by_id(orders, tracking.searchValue)
        IN  IF \E result \in found : WithinFallbackWindow(result)
            THEN tracking.rows \in found
            ELSE tracking.rows = {}

(***************************************************************************)
(* Manual control of `available` (SpecStock).                              *)
(***************************************************************************)
UntrackedRows == {new \in MenuRow : ~Tracked(new)}

\* C26: a write of a row whose track_inventory is false or NULL is stored
\* exactly as written: `available` as the admin wrote it, stock_quantity and
\* low_stock_threshold neither clamped nor used.
C26_UntrackedAsWritten ==
    [][\A i \in AdministeredItems, new \in UntrackedRows :
          UpdateMenuItem(i, new) => menu_items'[i] = new]_vars

\* an item with NULL tracking stored as unavailable with a negative stock
\* and no threshold
C26_Witness ==
    /\ menu_items["A1"].track_inventory = "null"
    /\ menu_items["A1"].stock_quantity = -1
    /\ menu_items["A1"].low_stock_threshold = NULL
    /\ ~menu_items["A1"].available

\* the update of item i that writes only `available`, and its outcome
WriteAvailableOnly(i, available) ==
    /\ UpdateMenuItem(i, [menu_items[i] EXCEPT !.available = available])
    /\ menu_items'[i] = [menu_items[i] EXCEPT !.available = available]

\* C27: on a tracked item an update that writes only `available` (stock
\* fields and tracking flag as stored) stores the written value and changes
\* nothing else, also when the value contradicts the stock level.
C27_ManualOverride ==
    \A i \in AdministeredItems, available \in BOOLEAN :
        Tracked(menu_items[i]) => ENABLED WriteAvailableOnly(i, available)

\* a tracked item in stock above its threshold, switched off by hand
C27_Witness ==
    /\ Tracked(menu_items["A1"])
    /\ menu_items["A1"].stock_quantity = MaxStock
    /\ menu_items["A1"].low_stock_threshold = 0
    /\ ~menu_items["A1"].available

(***************************************************************************)
(* Availability in sync with the stock (SpecSync).                         *)
(***************************************************************************)
TrackedSynced == \A i \in Items : Tracked(menu_items[i]) => Synced(menu_items[i])

\* a step that brings the stock of a tracked item to 0 leaves it unavailable
SoldOutUnavailable ==
    \A i \in Items :
        ( /\ Tracked(menu_items'[i])
          /\ menu_items[i].stock_quantity > 0
          /\ menu_items'[i].stock_quantity = 0 )
        => ~menu_items'[i].available

\* C28: from a catalog where every tracked item has available =
\* (stock_quantity > low_stock_threshold), and with no manual write of
\* `available`, every sequence of order decrements and stock, threshold or
\* tracking edits keeps that equality, and an item whose stock a decrement
\* brings to 0 is unavailable.
C28_AvailabilityInSync == []TrackedSynced /\ [][SoldOutUnavailable]_vars

\* orders sold the tracked item out while the edited item is in stock
C28_Witness ==
    /\ menu_items["B2"].stock_quantity = 0
    /\ ~menu_items["B2"].available
    /\ Tracked(menu_items["A1"])
    /\ menu_items["A1"].stock_quantity > menu_items["A1"].low_stock_threshold
    /\ menu_items["A1"].available

(***************************************************************************)
(* Properties of the customization modal and of its hand-off (SpecCard).   *)
(***************************************************************************)
OneEntryPerAddOn(addOns) ==
    \A j, k \in 1 .. Len(addOns) : j /= k => addOns[j].id /= addOns[k].id

QuantitiesPositive(addOns) == \A k \in 1 .. Len(addOns) : addOns[k].quantity >= 1

\* q is p with the k-th entry taken out
RemovedAt(p, q, k) == q = SubSeq(p, 1, k - 1) \o SubSeq(p, k + 1, Len(p))

\* a click in the modal that changes the selection appends a new add-on with
\* quantity 1, or changes the quantity of one entry by one where it stands,
\* or takes out the entry whose quantity was 1
SelectionStep ==
    LET p == card.selectedAddOns
        q == card'.selectedAddOns
    IN  (card.showCustomization /\ card'.showCustomization /\ q /= p) =>
           \/ /\ Len(q) = Len(p) + 1
              /\ SubSeq(q, 1, Len(p)) = p
              /\ q[Len(q)].quantity = 1
              /\ findIndex(p, q[Len(q)].id) = 0
           \/ \E k \in 1 .. Len(p) :
                 /\ Len(q) = Len(p)
                 /\ q = [p EXCEPT ![k].quantity = q[k].quantity]
                 /\ q[k].quantity \in {p[k].quantity + 1, p[k].quantity - 1}
           \/ \E k \in 1 .. Len(p) :
                 /\ p[k].quantity = 1
                 /\ RemovedAt(p, q, k)

\* C29: after any sequence of clicks on the add, plus and minus controls of
\* the modal, selectedAddOns holds at most one entry per add-on id and every
\* entry has a quantity of at least 1; a quantity that reaches 0 removes the
\* entry, and an add-on already selected is updated where it stands.
C29_SelectedAddOns ==
    /\ [](OneEntryPerAddOn(card.selectedAddOns) /\ QuantitiesPositive(card.selectedAddOns))
    /\ [][SelectionStep]_vars

\* one add-on alone in the selection, raised to the largest quantity by the
\* plus control
C29_Witness ==
    /\ card.showCustomization
    /\ Len(card.selectedAddOns) = 1
    /\ card.selectedAddOns[1].quantity = MaxAddOnQty

\* the cart item that a hand-off created or counted up
Touched(k) == k > Len(cart) \/ cart'[k] /= cart[k]

ExpectedUnitPrice(c) ==
    effectivePriceOf(c.item) + c.selectedVariation.price + SumAddOns(c.selectedAddOns)

\* the add-ons of the cart item are those selected, each once, with the
\* quantity selected
SameSelection(selectedAddOns, line) ==
    /\ Len(line.selectedAddOns) = Len(selectedAddOns)
    /\ OneEntryPerAddOn(line.selectedAddOns)
    /\ \A j \in 1 .. Len(selectedAddOns) :
          currentQuantity(line.selectedAddOns, selectedAddOns[j].id)
            = selectedAddOns[j].quantity

HandOff ==
    (card.showCustomization /\ cart' /= cart) =>
        \E k \in 1 .. Len(cart') :
            /\ Touched(k)
            /\ \A j \in 1 .. Len(cart') : Touched(j) => j = k
            /\ cart'[k].menuItemId = card.item.id
            /\ cart'[k].selectedVariation = card.selectedVariation
            /\ SameSelection(card.selectedAddOns, cart'[k])
            /\ cart'[k].totalPrice = ExpectedUnitPrice(card)

\* C30: the cart item that Add to Cart of the modal creates or counts up
\* carries every selected add-on once, with the quantity selected in the
\* modal, and its per-unit price is the effective price plus the variation
\* price plus the sum of add-on price times quantity.
C30_HandOff == [][HandOff]_vars

\* the large variation with two units of the priced add-on in the cart
C30_Witness ==
    \E k \in 1 .. Len(cart) :
        /\ cart[k].menuItemId = "A1"
        /\ cart[k].selectedVariation.id = "large"
        /\ cart[k].selectedAddOns = <<[id |-> "x1", price |-> 15, quantity |-> 2]>>
        /\ cart[k].totalPrice = UnitPrice("A1") + 20 + 2 * 15

====
